---- MODULE Spec2Model ----
(***************************************************************************)
(* Exchange-rate resolution and caching engine of valutatrade_hub:         *)
(* the rate cache file (data/rates.json), its two writers                  *)
(* (TradingPlatformService._resolve_rate and                               *)
(* ParserStorage.write_rates_cache), the history log and RatesUpdater.     *)
(*                                                                         *)
(* Time is counted in whole seconds.  `now` is the UTC instant; the        *)
(* machine's local wall clock reads now + tz.  A timestamp string is       *)
(* modelled by what datetime.fromisoformat makes of it: an offset-aware    *)
(* UTC time, a zone-less (naive) wall-clock time, the empty string, or a   *)
(* non-empty string that does not parse.  A float rate is modelled as a    *)
(* fraction n/d with d > 0.                                                *)
(***************************************************************************)
EXTENDS Integers, Sequences, FiniteSets, TLC

VARIABLES
    ratesFile,      \* content of data/rates.json
    historyFile,    \* content of data/exchange_rates.json
    clients,        \* last_updated_at and last_fetch_meta of each source client
    now,            \* the clock, UTC seconds
    tz,             \* local time minus UTC, seconds
    ttlSeconds,     \* the RATES_TTL_SECONDS setting
    apiKeySet,      \* ParserConfig.exchangerate_api_key is non-empty
    writers,        \* calls of the storage that run step by step, each with its locals
    sched,          \* RatesScheduler: its stop event and the threads in its methods
    last            \* the call that returned last: its inputs and its result

vars == <<ratesFile, historyFile, clients, now, tz, ttlSeconds, apiKeySet, writers,
          sched, last>>

(***************************************************************************)
(* Bounds of the model.                                                    *)
(***************************************************************************)
MaxTime == 2
MaxTtl == 1

\* The last second of the clock in the updater's specification.
MaxRunTime == 1

\* Offsets of the local time zone the model runs under.
LocalOffsets == {0, 1}

(***************************************************************************)
(* Currency codes and pair keys.  USD and EUR are in the stub's table, GBP *)
(* is a valid code that the stub does not know.  A pair key "FROM_TO" is   *)
(* modelled as the tuple <<FROM, TO>>: codes hold no underscore, so the    *)
(* key's formatting and its split("_", 1) are inverse to each other.       *)
(***************************************************************************)
Codes == {"USD", "EUR", "GBP"}

PairKey(from_code, to_code) == <<from_code, to_code>>

(***************************************************************************)
(* Rates.                                                                  *)
(***************************************************************************)
Rate(n, d) == [n |-> n, d |-> d]

One == Rate(1, 1)

\* r > 0
RatePositive(r) == (r.n > 0 /\ r.d > 0) \/ (r.n < 0 /\ r.d < 0)

InverseKept(r) == r

\* 1.0 / r
Inverse(r) == Rate(r.d, r.n)

(***************************************************************************)
(* Timestamp strings.                                                      *)
(***************************************************************************)
Aware(t) == [kind |-> "aware", t |-> t]

Naive(t) == [kind |-> "naive", t |-> t]

EmptyStamp == [kind |-> "empty", t |-> 0]

BadStamp == [kind |-> "bad", t |-> 0]

NullStamp == [kind |-> "null", t |-> 0]

\* datetime.fromisoformat(s.replace("Z", "+00:00")): ok = FALSE is ValueError.
fromisoformat(s) ==
    IF s.kind \in {"aware", "naive"}
    THEN [ok |-> TRUE, tzinfo |-> (s.kind = "aware"), t |-> s.t]
    ELSE [ok |-> FALSE, tzinfo |-> FALSE, t |-> 0]

\* datetime.now(timezone.utc).isoformat()
utc_now_iso(clock) == Aware(clock)

\* datetime.now().isoformat(timespec="seconds"): zone-less local wall clock.
local_now_iso(clock, offset) == Naive(clock + offset)

(***************************************************************************)
(* core/utils.py                                                           *)
(***************************************************************************)
is_rate_fresh_late(updated_at, ttl, clock, offset) ==
    LET updated == fromisoformat(updated_at)
        current == IF updated.tzinfo THEN clock ELSE clock + offset
    IN  updated.ok /\ current - updated.t < ttl

is_rate_fresh(updated_at, ttl, clock, offset) ==
    LET updated == fromisoformat(updated_at)
        current == IF updated.tzinfo THEN clock ELSE clock + offset
    IN  updated.ok /\ current - updated.t <= ttl

Entry(rate, updated_at, source) ==
    [rate |-> rate, updated_at |-> updated_at, source |-> source]

NoResult == [hit |-> FALSE, rate |-> Rate(0, 1), updated_at |-> NullStamp]

Hit(rate, updated_at) == [hit |-> TRUE, rate |-> rate, updated_at |-> updated_at]

\* A parsed rates payload: shape "flat" is the object {} without a "pairs" key
\* (the payload itself is then taken as the pair mapping, and is empty),
\* "badpairs" has a "pairs" value that is not a mapping, "ok" has a mapping
\* under "pairs".  last_refresh is NullStamp when the key is null or absent.
Payload(shape, pairs, last_refresh) ==
    [shape |-> shape, pairs |-> pairs, last_refresh |-> last_refresh]

EmptyPayload(shape) == Payload(shape, <<>>, NullStamp)

\* rates_payload.get("pairs", rates_payload)
PairsOf(payload) ==
    IF payload.shape = "ok" THEN payload.pairs ELSE <<>>

PairsIsDict(payload) == payload.shape # "badpairs"

resolve_rate_from_cache_reverse_first(payload, from_code, to_code, ttl, clock, offset) ==
    LET pairs == PairsOf(payload)
        pair == PairKey(from_code, to_code)
        reverse_pair == PairKey(to_code, from_code)
        direct_ok == pair \in DOMAIN pairs
                     /\ is_rate_fresh(pairs[pair].updated_at, ttl, clock, offset)
        reverse_ok == reverse_pair \in DOMAIN pairs
                      /\ RatePositive(pairs[reverse_pair].rate)
                      /\ is_rate_fresh(pairs[reverse_pair].updated_at, ttl, clock, offset)
    IN  IF ~PairsIsDict(payload) THEN NoResult
        ELSE IF from_code = to_code THEN Hit(One, local_now_iso(clock, offset))
        ELSE IF reverse_ok
             THEN Hit(Inverse(pairs[reverse_pair].rate), pairs[reverse_pair].updated_at)
        ELSE IF direct_ok THEN Hit(pairs[pair].rate, pairs[pair].updated_at)
        ELSE NoResult

resolve_rate_from_cache(payload, from_code, to_code, ttl, clock, offset) ==
    LET pairs == PairsOf(payload)
        pair == PairKey(from_code, to_code)
        reverse_pair == PairKey(to_code, from_code)
        direct_ok == pair \in DOMAIN pairs
                     /\ is_rate_fresh(pairs[pair].updated_at, ttl, clock, offset)
        reverse_ok == reverse_pair \in DOMAIN pairs
                      /\ RatePositive(pairs[reverse_pair].rate)
                      /\ is_rate_fresh(pairs[reverse_pair].updated_at, ttl, clock, offset)
    IN  IF ~PairsIsDict(payload) THEN NoResult
        ELSE IF from_code = to_code THEN Hit(One, local_now_iso(clock, offset))
        ELSE IF direct_ok THEN Hit(pairs[pair].rate, pairs[pair].updated_at)
        ELSE IF reverse_ok
             THEN Hit(Inverse(pairs[reverse_pair].rate), pairs[reverse_pair].updated_at)
        ELSE NoResult

\* The stub's table of USD values.
usd_rates ==
    [c \in {"USD", "EUR", "BTC", "RUB", "ETH"} |->
        CASE c = "USD" -> Rate(1, 1)
          [] c = "EUR" -> Rate(10786, 10000)
          [] c = "BTC" -> Rate(5933721, 100)
          [] c = "RUB" -> Rate(1016, 100000)
          [] c = "ETH" -> Rate(3720, 1)]

Divide(a, b) == Rate(a.n * b.d, a.d * b.n)

\* ok = FALSE is ApiRequestError("курс FROM->TO не найден").
resolve_rate_from_stub(from_code, to_code) ==
    IF from_code = to_code THEN [ok |-> TRUE, rate |-> One]
    ELSE IF from_code \notin DOMAIN usd_rates \/ to_code \notin DOMAIN usd_rates
         THEN [ok |-> FALSE, rate |-> Rate(0, 1)]
    ELSE [ok |-> TRUE, rate |-> Divide(usd_rates[from_code], usd_rates[to_code])]

Put(dict, key, value) ==
    [k \in (DOMAIN dict) \cup {key} |-> IF k = key THEN value ELSE dict[k]]

upsert_rate_fresh_dict(payload, from_code, to_code, rate, clock, offset) ==
    LET stamp == local_now_iso(clock, offset)
    IN  Payload("ok",
                Put(<<>>, PairKey(from_code, to_code), Entry(rate, stamp, "LocalStub")),
                stamp)

\* Returns the updated payload; the timestamp it returns is last_refresh.
upsert_rate(payload, from_code, to_code, rate, clock, offset) ==
    LET stamp == local_now_iso(clock, offset)
        pairs == IF payload.shape = "ok" THEN payload.pairs ELSE <<>>
    IN  Payload("ok",
                Put(pairs, PairKey(from_code, to_code), Entry(rate, stamp, "LocalStub")),
                stamp)

(***************************************************************************)
(* JSON files.  A file holds either text that json.load rejects ("corrupt")*)
(* or a serialised object.  The rates object is serialised member by       *)
(* member: its "pairs" member (absent, not a mapping, or a list of         *)
(* key/value members) and its "last_refresh" member.  A path may also name *)
(* no file ("absent"), or a file that open() or the decoding of its bytes  *)
(* refuses ("unreadable": PermissionError, IsADirectoryError,              *)
(* UnicodeDecodeError).                                                    *)
(***************************************************************************)
CorruptFile == [kind |-> "corrupt"]

AbsentFile == [kind |-> "absent"]

UnreadableFile == [kind |-> "unreadable"]

\* _read_json catches FileNotFoundError and json.JSONDecodeError and nothing
\* else: any other error of open() or json.load leaves the call.
ReadRaises(file) == file.kind = "unreadable"

\* The two errors _read_json turns into its default.
ReadDefaults(file) == file.kind \in {"corrupt", "absent"}

\* json.dump of a rates payload.
json_dump_rates(payload) ==
    [kind |-> "json",
     has_pairs |-> payload.shape # "flat",
     pairs_is_object |-> payload.shape = "ok",
     members |-> {<<k, payload.pairs[k]>> : k \in DOMAIN payload.pairs},
     last_refresh |-> payload.last_refresh]

\* json.load of a rates file that parses.
json_load_rates(text) ==
    LET keys == {m[1] : m \in text.members}
    IN  Payload(IF ~text.has_pairs THEN "flat"
                ELSE IF text.pairs_is_object THEN "ok" ELSE "badpairs",
                [k \in keys |-> (CHOOSE m \in text.members : m[1] = k)[2]],
                text.last_refresh)

\* _read_json(path, default) of both DatabaseManager and ParserStorage.
read_json_rates(file, default) ==
    IF ReadDefaults(file) THEN default ELSE json_load_rates(file)

\* DatabaseManager.get_rates
get_rates(file) == read_json_rates(file, EmptyPayload("flat"))

\* DatabaseManager.save_rates: the content of the file once the write is over.
save_rates(payload) == json_dump_rates(payload)

\* ParserStorage.read_rates_cache
read_rates_cache(file) == read_json_rates(file, EmptyPayload("ok"))

\* ParserStorage.atomic_write_json: the content of the file once it is replaced.
atomic_write_json(payload) == json_dump_rates(payload)

(***************************************************************************)
(* parser_service/storage.py: the merge-write.                             *)
(***************************************************************************)
None == [present |-> FALSE]

Some(entry) == [present |-> TRUE, entry |-> entry]

Get(dict, key) == IF key \in DOMAIN dict THEN Some(dict[key]) ELSE None

\* not str(entry.get("updated_at", "")): the key is missing or holds "".
\* (A null gives the non-empty string "None", which then fails to parse.)
NoStamp(entry) == entry.updated_at.kind = "empty"

should_replace_strict(current, incoming) ==
    IF ~current.present THEN TRUE
    ELSE IF NoStamp(current.entry) THEN TRUE
    ELSE IF NoStamp(incoming) THEN FALSE
    ELSE LET cur_dt == fromisoformat(current.entry.updated_at)
             inc_dt == fromisoformat(incoming.updated_at)
         IN  IF ~cur_dt.ok \/ ~inc_dt.ok THEN TRUE
             ELSE inc_dt.t > cur_dt.t

should_replace_always(current, incoming) == TRUE

\* A zone-less time is read as UTC (replace(tzinfo=timezone.utc)), so two
\* parsed values compare by their readings t.
_should_replace(current, incoming) ==
    IF ~current.present THEN TRUE
    ELSE IF NoStamp(current.entry) THEN TRUE
    ELSE IF NoStamp(incoming) THEN FALSE
    ELSE LET cur_dt == fromisoformat(current.entry.updated_at)
             inc_dt == fromisoformat(incoming.updated_at)
         IN  IF ~cur_dt.ok \/ ~inc_dt.ok THEN TRUE
             ELSE inc_dt.t >= cur_dt.t

\* cache.get("pairs", {}), or {} when that is not a mapping.
StoredPairs(cache) == IF cache.shape = "ok" THEN cache.pairs ELSE <<>>

AcceptedAll(pairs, updates) == DOMAIN updates

Accepted(pairs, updates) ==
    {pair \in DOMAIN updates : _should_replace(Get(pairs, pair), updates[pair])}

write_rates_cache_overwrite(file, updates, last_refresh) ==
    LET cache == read_rates_cache(file)
        pairs == StoredPairs(cache)
        acc == Accepted(pairs, updates)
    IN  [file |-> atomic_write_json(Payload("ok", [p \in acc |-> updates[p]],
                                            last_refresh)),
         updated_count |-> Cardinality(acc)]

\* The file content after the call, and the count the call returns.
write_rates_cache(file, updates, last_refresh) ==
    LET cache == read_rates_cache(file)
        pairs == StoredPairs(cache)
        acc == Accepted(pairs, updates)
        merged == [p \in (DOMAIN pairs) \cup acc |->
                      IF p \in acc THEN updates[p] ELSE pairs[p]]
    IN  [file |-> atomic_write_json(Payload("ok", merged, last_refresh)),
         updated_count |-> Cardinality(acc)]

(***************************************************************************)
(* parser_service/config.py and api_clients.py: the two source clients.    *)
(* An HTTP exchange is modelled by its outcome: the request raised, the    *)
(* body is not JSON, or the body is a JSON object whose quotes are         *)
(* numbers or something else.                                              *)
(***************************************************************************)
base_currency == "USD"

fiat_currencies == <<"EUR", "GBP", "RUB">>

crypto_currencies == <<"BTC", "ETH", "SOL">>

crypto_id_map == [code \in {"BTC", "ETH", "SOL"} |->
                     CASE code = "BTC" -> "bitcoin"
                       [] code = "ETH" -> "ethereum"
                       [] code = "SOL" -> "solana"]

\* The clients in the order the updater is built with.
ClientNames == <<"CoinGecko", "ExchangeRate-API">>

\* BaseApiClient.__init__
NewClient(clock) == [last_updated_at |-> utc_now_iso(clock), last_fetch_meta |-> <<>>]

NewClients(clock) ==
    [name \in {ClientNames[i] : i \in DOMAIN ClientNames} |-> NewClient(clock)]

RequestFailed == [kind |-> "request_exception"]

NotJson == [kind |-> "invalid_json"]

JsonBody(result, quotes) == [kind |-> "json", result |-> result, quotes |-> quotes]

Number(r) == [is_number |-> TRUE, value |-> r]

NotANumber == [is_number |-> FALSE]

\* isinstance(raw, (int, float)) of the quote a body gives for `key`.
Quoted(quotes, key) == key \in DOMAIN quotes /\ quotes[key].is_number

Raised(kind, client) == [outcome |-> kind, client |-> client]

Fetched(client, order, rates, meta, clock) ==
    [outcome |-> "ok", order |-> order, rates |-> rates,
     client |-> [client EXCEPT !.last_updated_at = utc_now_iso(clock),
                               !.last_fetch_meta = meta]]

\* self.config.fiat_currencies: the default of ParserConfig, unless the
\* client was built with a config that lists other codes.
Listed(client) ==
    IF "fiat_currencies" \in DOMAIN client THEN client.fiat_currencies
    ELSE fiat_currencies

\* CoinGeckoClient.fetch_rates: the pairs in the order they are returned,
\* their rates, and the client's fields after the call.
CoinGeckoFetch(response, client, clock) ==
    IF response.kind = "request_exception" THEN Raised("ApiRequestError", client)
    ELSE IF response.kind = "invalid_json" THEN Raised("JSONDecodeError", client)
    ELSE LET Has(code) == Quoted(response.quotes, crypto_id_map[code])
             order == SelectSeq(crypto_currencies, Has)
             codes == {order[i] : i \in DOMAIN order}
             pairs == {PairKey(code, base_currency) : code \in codes}
         IN  Fetched(client,
                     [i \in DOMAIN order |-> PairKey(order[i], base_currency)],
                     [pair \in pairs |-> response.quotes[crypto_id_map[pair[1]]].value],
                     [pair \in pairs |-> [raw_id |-> crypto_id_map[pair[1]]]],
                     clock)

\* ExchangeRateApiClient.fetch_rates
ExchangeRateFetch(response, client, clock, key_set) ==
    IF ~key_set THEN Raised("ApiRequestError", client)
    ELSE IF response.kind = "request_exception" THEN Raised("ApiRequestError", client)
    ELSE IF response.kind = "invalid_json" THEN Raised("JSONDecodeError", client)
    ELSE IF response.result # "success" THEN Raised("ApiRequestError", client)
    ELSE LET Has(code) == /\ Quoted(response.quotes, code)
                          /\ response.quotes[code].value.n # 0
             order == SelectSeq(Listed(client), Has)
             codes == {order[i] : i \in DOMAIN order}
             pairs == {PairKey(code, base_currency) : code \in codes}
         IN  Fetched(client,
                     [i \in DOMAIN order |-> PairKey(order[i], base_currency)],
                     [pair \in pairs |-> Inverse(response.quotes[pair[1]].value)],
                     [pair \in pairs |-> [raw_id |-> pair[1]]],
                     clock)

fetch_rates(name, response, client, clock, key_set) ==
    IF name = "CoinGecko" THEN CoinGeckoFetch(response, client, clock)
    ELSE ExchangeRateFetch(response, client, clock, key_set)

(***************************************************************************)
(* parser_service/storage.py: the history log.  A record's id is           *)
(* FROM_TO_timestamp.                                                      *)
(***************************************************************************)
HistoryRecord(pair, rate, timestamp, source, meta) ==
    [id |-> <<pair[1], pair[2], timestamp>>,
     from_currency |-> pair[1], to_currency |-> pair[2],
     rate |-> rate, timestamp |-> timestamp, source |-> source, meta |-> meta]

\* The id "" (or a missing one), which append_history skips.
EmptyId == <<>>

\* json.dump of a history list: the array, element by element.
json_dump_history(history) ==
    [kind |-> "json", is_list |-> TRUE,
     items |-> {<<i, history[i]>> : i \in DOMAIN history}]

\* A history file whose JSON value is not an array.
NotAList == [kind |-> "json", is_list |-> FALSE, items |-> {}]

\* json.load of a history file that parses, and the isinstance(history, list)
\* test of append_history.
json_load_history(text) ==
    IF ~text.is_list THEN <<>>
    ELSE [i \in 1..Cardinality(text.items) |->
             (CHOOSE item \in text.items : item[1] = i)[2]]

\* self._read_json(self._config.history_file_path, [])
read_history(file) ==
    IF ReadDefaults(file) THEN <<>> ELSE json_load_history(file)

AppendAll(history, records, added) ==
    [history |-> history \o records, added |-> added + Len(records)]

AppendFront(history, records, added) ==
    [history |-> records \o history, added |-> added + Len(records)]

RECURSIVE AppendNew(_, _, _)
\* The loop of append_history: the history and the count after `records`.
AppendNew(history, records, added) ==
    IF records = <<>> THEN [history |-> history, added |-> added]
    ELSE IF \/ Head(records).id = EmptyId
            \/ \E i \in DOMAIN history : history[i].id = Head(records).id
         THEN AppendNew(history, Tail(records), added)
         ELSE AppendNew(Append(history, Head(records)), Tail(records), added + 1)

\* The file content after the call, and the count the call returns.
append_history(file, records) ==
    LET r == AppendNew(read_history(file), records, 0)
    IN  [file |-> json_dump_history(r.history), added |-> r.added]

(***************************************************************************)
(* parser_service/updater.py                                               *)
(***************************************************************************)
NoSource == "None"

\* The list of clients a RatesUpdater was built with.
Configured(state) == SelectSeq(ClientNames, LAMBDA name : name \in DOMAIN state)

select_clients_or_all(configured, source) ==
    [ok |-> TRUE,
     selected |-> IF source = "coingecko"
                  THEN SelectSeq(configured, LAMBDA name : name = "CoinGecko")
                  ELSE IF source = "exchangerate"
                  THEN SelectSeq(configured, LAMBDA name : name = "ExchangeRate-API")
                  ELSE configured]

\* The clients a source filter selects, or the ValueError it ends in.
_select_clients(configured, source) ==
    IF source = NoSource THEN [ok |-> TRUE, selected |-> configured]
    ELSE IF source \notin {"coingecko", "exchangerate"}
         THEN [ok |-> FALSE, selected |-> <<>>]
         ELSE LET expected_name == IF source = "coingecko" THEN "CoinGecko"
                                   ELSE "ExchangeRate-API"
                  filtered == SelectSeq(configured, LAMBDA name : name = expected_name)
              IN  [ok |-> filtered # <<>>, selected |-> filtered]

FoldKeepingFirst(combined_updates, entries) == combined_updates @@ entries

\* combined_updates[pair] = entry, for every pair a client returned.
Fold(combined_updates, entries) == entries @@ combined_updates

NothingFetched(state) ==
    [outcome |-> "ok", combined_updates |-> <<>>, history_records |-> <<>>,
     errors |-> <<>>, failed |-> {}, called |-> <<>>, clients |-> state]

RECURSIVE FetchEach(_, _, _, _, _)
\* The loop of run_update over the selected clients.  An ApiRequestError goes
\* to `errors`; any other exception leaves the loop and run_update with it.
\* `called` lists the clients whose fetch_rates was called.
FetchEach(selected, responses, acc, clock, key_set) ==
    IF selected = <<>> THEN acc
    ELSE LET name == Head(selected)
             r == fetch_rates(name, responses[name], acc.clients[name], clock, key_set)
         IN  IF r.outcome = "ok"
             THEN LET entries == [pair \in DOMAIN r.rates |->
                                     Entry(r.rates[pair], r.client.last_updated_at, name)]
                      records == [i \in DOMAIN r.order |->
                                     HistoryRecord(r.order[i], r.rates[r.order[i]],
                                                   r.client.last_updated_at, name,
                                                   r.client.last_fetch_meta[r.order[i]])]
                  IN  FetchEach(Tail(selected), responses,
                                [acc EXCEPT !.called = Append(@, name),
                                            !.combined_updates = Fold(@, entries),
                                            !.history_records = @ \o records,
                                            !.clients[name] = r.client],
                                clock, key_set)
             ELSE IF r.outcome = "ApiRequestError"
             THEN FetchEach(Tail(selected), responses,
                            [acc EXCEPT !.called = Append(@, name),
                                        !.errors = Append(@, name),
                                        !.failed = @ \cup {name}],
                            clock, key_set)
             ELSE [acc EXCEPT !.called = Append(@, name),
                              !.outcome = r.outcome, !.failed = @ \cup {name}]

(***************************************************************************)
(* State after construction.  DatabaseManager._ensure_storage leaves {} in *)
(* a rates file it creates, ParserStorage._ensure_files leaves             *)
(* {"pairs": {}, "last_refresh": null}; a file that exists is kept as it   *)
(* is, whatever it holds.                                                  *)
(***************************************************************************)
\* No call of the storage is under way.
NoWriters == <<>>

\* No RatesScheduler has been built.
NoScheduler == [built |-> FALSE]

Idle == [op |-> "none"]

CreatedFiles == {json_dump_rates(EmptyPayload(s)) : s \in {"flat", "ok"}}

Init ==
    /\ ratesFile \in CreatedFiles \cup {CorruptFile}
    /\ historyFile = json_dump_history(<<>>)
    /\ clients = NewClients(0)
    /\ now = 0
    /\ tz \in LocalOffsets
    /\ ttlSeconds \in 0..MaxTtl
    /\ apiKeySet = TRUE
    /\ writers = NoWriters
    /\ sched = NoScheduler
    /\ last = Idle

\* A second of time passes between two calls, up to `limit`.
Advance(limit) ==
    /\ now < limit
    /\ now' = now + 1
    /\ last' = Idle
    /\ UNCHANGED <<ratesFile, historyFile, clients, tz, ttlSeconds, apiKeySet,
                   writers, sched>>

\* A call ends with the error that left _read_json, and nothing is changed.
Fails(call) ==
    /\ last' = call @@ [outcome |-> "OSError"]
    /\ UNCHANGED <<ratesFile, historyFile, clients, now, tz, ttlSeconds, apiKeySet,
                   writers, sched>>

Tick == Advance(MaxTime)

(***************************************************************************)
(* TradingPlatformService._resolve_rate.  `reads` and `writes` count the   *)
(* accesses to the rates file, `fetched` says that resolve_rate_from_stub  *)
(* was called, `direct` is the entry the cache held for the pair.          *)
(***************************************************************************)
ResolveResultServesStale(file, from_code, to_code, ttl, clock, offset) ==
    LET rates_payload == get_rates(file)
        cached == resolve_rate_from_cache(rates_payload, from_code, to_code,
                                          ttl, clock, offset)
        fresh == resolve_rate_from_stub(from_code, to_code)
        updated == upsert_rate(rates_payload, from_code, to_code, fresh.rate,
                               clock, offset)
        direct == Get(PairsOf(rates_payload), PairKey(from_code, to_code))
        call == [op |-> "resolve", from_code |-> from_code, to_code |-> to_code,
                 at |-> clock, reads |-> 1, direct |-> direct]
    IN  IF cached.hit
        THEN [file |-> file,
              last |-> call @@ [outcome |-> "ok", rate |-> cached.rate,
                                updated_at |-> cached.updated_at,
                                fetched |-> FALSE, writes |-> 0]]
        ELSE IF ~fresh.ok /\ direct.present
        THEN [file |-> file,
              last |-> call @@ [outcome |-> "ok", rate |-> direct.entry.rate,
                                updated_at |-> direct.entry.updated_at,
                                fetched |-> TRUE, writes |-> 0]]
        ELSE IF ~fresh.ok
        THEN [file |-> file,
              last |-> call @@ [outcome |-> "ApiRequestError",
                                error_pair |-> PairKey(from_code, to_code),
                                fetched |-> TRUE, writes |-> 0]]
        ELSE [file |-> save_rates(updated),
              last |-> call @@ [outcome |-> "ok", rate |-> fresh.rate,
                                updated_at |-> updated.last_refresh,
                                fetched |-> TRUE, writes |-> 1]]

ResolveResult(file, from_code, to_code, ttl, clock, offset) ==
    LET rates_payload == get_rates(file)
        cached == resolve_rate_from_cache(rates_payload, from_code, to_code,
                                          ttl, clock, offset)
        fresh == resolve_rate_from_stub(from_code, to_code)
        updated == upsert_rate(rates_payload, from_code, to_code, fresh.rate,
                               clock, offset)
        call == [op |-> "resolve", from_code |-> from_code, to_code |-> to_code,
                 at |-> clock, reads |-> 1,
                 direct |-> Get(PairsOf(rates_payload), PairKey(from_code, to_code))]
    IN  IF cached.hit
        THEN [file |-> file,
              last |-> call @@ [outcome |-> "ok", rate |-> cached.rate,
                                updated_at |-> cached.updated_at,
                                fetched |-> FALSE, writes |-> 0]]
        ELSE IF ~fresh.ok
        THEN [file |-> file,
              last |-> call @@ [outcome |-> "ApiRequestError",
                                error_pair |-> PairKey(from_code, to_code),
                                fetched |-> TRUE, writes |-> 0]]
        ELSE [file |-> save_rates(updated),
              last |-> call @@ [outcome |-> "ok", rate |-> fresh.rate,
                                updated_at |-> updated.last_refresh,
                                fetched |-> TRUE, writes |-> 1]]

Resolve(from_code, to_code) ==
    LET r == ResolveResult(ratesFile, from_code, to_code, ttlSeconds, now, tz)
    IN  IF ReadRaises(ratesFile)
        THEN Fails([op |-> "resolve", from_code |-> from_code,
                    to_code |-> to_code, at |-> now])
        ELSE /\ ratesFile' = r.file
             /\ last' = r.last
             /\ UNCHANGED <<historyFile, clients, now, tz, ttlSeconds, apiKeySet,
                            writers, sched>>

(***************************************************************************)
(* ParserStorage.write_rates_cache and read_rates_cache as operations.     *)
(* `current` is what the cache held for each incoming pair.                *)
(***************************************************************************)
MergeWrite(updates, last_refresh) ==
    LET r == write_rates_cache(ratesFile, updates, last_refresh)
        pairs == StoredPairs(read_rates_cache(ratesFile))
        call == [op |-> "write_rates_cache", updates |-> updates,
                 last_refresh |-> last_refresh]
    IN  IF ReadRaises(ratesFile)
        THEN Fails(call)
        ELSE /\ ratesFile' = r.file
             /\ last' = call @@ [current |-> [p \in DOMAIN updates |-> Get(pairs, p)],
                                 updated_count |-> r.updated_count]
             /\ UNCHANGED <<historyFile, clients, now, tz, ttlSeconds, apiKeySet,
                            writers, sched>>

ReadCache ==
    IF ReadRaises(ratesFile)
    THEN Fails([op |-> "read_rates_cache"])
    ELSE /\ last' = [op |-> "read_rates_cache",
                     payload |-> read_rates_cache(ratesFile)]
         /\ UNCHANGED <<ratesFile, historyFile, clients, now, tz, ttlSeconds,
                        apiKeySet, writers, sched>>

\* ParserStorage.append_history as one operation.
AppendHistory(records) ==
    LET r == append_history(historyFile, records)
        call == [op |-> "append_history", records |-> records]
    IN  IF ReadRaises(historyFile)
        THEN Fails(call)
        ELSE /\ historyFile' = r.file
             /\ last' = call @@ [added |-> r.added]
             /\ UNCHANGED <<ratesFile, clients, now, tz, ttlSeconds, apiKeySet,
                            writers, sched>>

(***************************************************************************)
(* RatesUpdater.run_update as one operation.  `responses` is what each     *)
(* source answers in this run.  Update is the call itself, whoever makes   *)
(* it.                                                                     *)
(***************************************************************************)
Update(source, responses) ==
    LET started == utc_now_iso(now)
        choice == _select_clients(Configured(clients), source)
        fetched == FetchEach(choice.selected, responses, NothingFetched(clients),
                             now, apiKeySet)
        written == write_rates_cache(ratesFile, fetched.combined_updates, started)
        appended == append_history(historyFile, fetched.history_records)
        call == [op |-> "run_update", source |-> source, at |-> now,
                 selected |-> choice.selected,
                 called |-> IF choice.ok THEN fetched.called ELSE <<>>]
    IN  IF ~choice.ok
        THEN /\ last' = call @@ [outcome |-> "ValueError", failed |-> {}]
             /\ UNCHANGED <<ratesFile, historyFile, clients, now, tz, ttlSeconds,
                            apiKeySet, writers>>
        ELSE IF fetched.outcome # "ok"
        THEN /\ clients' = fetched.clients
             /\ last' = call @@ [outcome |-> fetched.outcome,
                                 failed |-> fetched.failed]
             /\ UNCHANGED <<ratesFile, historyFile, now, tz, ttlSeconds, apiKeySet,
                            writers>>
        ELSE IF ReadRaises(ratesFile)
        THEN /\ clients' = fetched.clients
             /\ last' = call @@ [outcome |-> "OSError", failed |-> fetched.failed]
             /\ UNCHANGED <<ratesFile, historyFile, now, tz, ttlSeconds, apiKeySet,
                            writers>>
        ELSE IF ReadRaises(historyFile)
        THEN /\ ratesFile' = written.file
             /\ clients' = fetched.clients
             /\ last' = call @@ [outcome |-> "OSError", failed |-> fetched.failed]
             /\ UNCHANGED <<historyFile, now, tz, ttlSeconds, apiKeySet, writers>>
        ELSE /\ ratesFile' = written.file
             /\ historyFile' = appended.file
             /\ clients' = fetched.clients
             /\ last' = call @@ [outcome |-> "ok",
                                 failed |-> fetched.failed,
                                 submitted |-> fetched.combined_updates,
                                 built |-> fetched.history_records,
                                 updated_count |-> written.updated_count,
                                 history_added |-> appended.added,
                                 last_refresh |-> started,
                                 errors |-> fetched.errors]
             /\ UNCHANGED <<now, tz, ttlSeconds, apiKeySet, writers>>

\* run_update called by the command line, with no scheduler involved.
RunUpdate(source, responses) ==
    Update(source, responses) /\ UNCHANGED sched

(***************************************************************************)
(* Spec: the resolver on a cache that a source-like writer fills.  The     *)
(* writer merges one entry at a time, stamped with the current UTC time as *)
(* the source clients stamp theirs, or with a string that does not parse.  *)
(* It writes USD_EUR (which the resolver reads directly and in reverse,    *)
(* and also writes itself, as it does EUR_USD) and GBP_USD (a pair the     *)
(* stub cannot fetch).                                                     *)
(***************************************************************************)
IncomingRates == {Rate(0, 1), Rate(9, 10)}

SeedKeys == {PairKey("USD", "EUR"), PairKey("GBP", "USD")}

SeedEntries(pair) ==
    {Entry(r, s, "ExchangeRate-API") :
        r \in (IF pair = PairKey("USD", "EUR") THEN IncomingRates ELSE {Rate(9, 10)}),
        s \in {utc_now_iso(now), BadStamp}}

SeedBatches == UNION {[{k} -> SeedEntries(k)] : k \in SeedKeys}

Next ==
    \/ Tick
    \/ \E f \in Codes, t \in Codes : Resolve(f, t)
    \/ \E u \in SeedBatches : MergeWrite(u, utc_now_iso(now))

Spec == Init /\ [][Next]_vars

(***************************************************************************)
(* SpecMerge: merge-writes of batches of up to two pairs, with any of the  *)
(* timestamps below, and reads of the cache.                               *)
(***************************************************************************)
MergeKeys == {PairKey("USD", "EUR"), PairKey("EUR", "USD")}

IncomingStamps == {Aware(t) : t \in 0..MaxTime} \cup {EmptyStamp, BadStamp}

\* USD_EUR comes with every rate and timestamp, EUR_USD with one rate and the
\* first and last timestamps and a missing one.
IncomingEntries(pair) ==
    IF pair = PairKey("USD", "EUR")
    THEN {Entry(r, s, "ExchangeRate-API") : r \in IncomingRates, s \in IncomingStamps}
    ELSE {Entry(Rate(9, 10), s, "CoinGecko") :
             s \in {Aware(0), Aware(MaxTime), EmptyStamp}}

Batches ==
    UNION {{u \in [ks -> UNION {IncomingEntries(k) : k \in ks}] :
               \A k \in ks : u[k] \in IncomingEntries(k)} : ks \in SUBSET MergeKeys}

RefreshStamps == {Aware(0), Aware(MaxTime)}

InitMerge ==
    /\ ratesFile \in CreatedFiles \cup {CorruptFile}
    /\ historyFile = json_dump_history(<<>>)
    /\ clients = NewClients(0)
    /\ now = 0
    /\ tz = 0
    /\ ttlSeconds = 0
    /\ apiKeySet = TRUE
    /\ writers = NoWriters
    /\ sched = NoScheduler
    /\ last = Idle

NextMerge ==
    \/ \E u \in Batches, r \in RefreshStamps : MergeWrite(u, r)
    \/ ReadCache

SpecMerge == InitMerge /\ [][NextMerge]_vars

(***************************************************************************)
(* SpecUpdate: the updater with its two clients, on a clock that moves.    *)
(* CoinGecko quotes bitcoin, ExchangeRate-API quotes EUR; either may fail  *)
(* in each of its ways.  A merge-write of an empty map stands for a caller *)
(* of the storage that has nothing to submit.                              *)
(***************************************************************************)
Sources == {NoSource, "coingecko", "exchangerate", "bogus"}

CoinGeckoResponses ==
    {RequestFailed, NotJson, JsonBody("", <<>>),
     JsonBody("", [id \in {"bitcoin"} |-> Number(Rate(9, 10))]),
     JsonBody("", [id \in {"bitcoin"} |-> NotANumber])}

ExchangeRateResponses ==
    {RequestFailed, NotJson, JsonBody("error", <<>>),
     JsonBody("success", [code \in {"EUR"} |-> Number(Rate(9, 10))]),
     JsonBody("success", [code \in {"EUR"} |-> Number(Rate(0, 1))])}

ResponsesOf(name) ==
    IF name = "CoinGecko" THEN CoinGeckoResponses ELSE ExchangeRateResponses

\* One answer for each client the run calls.
Responses(selected) ==
    LET names == {selected[i] : i \in DOMAIN selected}
    IN  {responses \in [names -> CoinGeckoResponses \cup ExchangeRateResponses] :
            \A name \in names : responses[name] \in ResponsesOf(name)}

InitUpdate ==
    /\ ratesFile \in CreatedFiles \cup {CorruptFile}
    /\ historyFile = json_dump_history(<<>>)
    /\ clients = NewClients(0)
    /\ now = 0
    /\ tz = 0
    /\ ttlSeconds = 0
    /\ apiKeySet \in BOOLEAN
    /\ writers = NoWriters
    /\ sched = NoScheduler
    /\ last = Idle

NextUpdate ==
    \/ Advance(MaxRunTime)
    \/ \E source \in Sources :
          \E responses \in Responses(_select_clients(Configured(clients), source).selected) :
              RunUpdate(source, responses)
    \/ MergeWrite(<<>>, utc_now_iso(now))

SpecUpdate == InitUpdate /\ [][NextUpdate]_vars

(***************************************************************************)
(* SpecSources: an updater built with no client or with one of the two,    *)
(* asked for any source, while the source quotes a positive number, zero   *)
(* or a negative number.  (SpecUpdate is the updater built with both.)     *)
(***************************************************************************)
Quotes == {Rate(9, 10), Rate(0, 1), Rate(-1, 2)}

QuotingResponses(selected) ==
    LET names == {selected[i] : i \in DOMAIN selected}
        Answers(name) ==
            {RequestFailed}
                \cup {JsonBody(IF name = "CoinGecko" THEN "" ELSE "success",
                               [key \in {IF name = "CoinGecko" THEN "bitcoin" ELSE "EUR"}
                                   |-> Number(quote)]) : quote \in Quotes}
    IN  {responses \in [names -> UNION {Answers(name) : name \in names}] :
            \A name \in names : responses[name] \in Answers(name)}

InitSources ==
    /\ ratesFile = json_dump_rates(EmptyPayload("ok"))
    /\ historyFile = json_dump_history(<<>>)
    /\ clients \in {[name \in built |-> NewClient(0)] :
                       built \in {{}} \cup {{ClientNames[i]} : i \in DOMAIN ClientNames}}
    /\ now = 0
    /\ tz = 0
    /\ ttlSeconds = 0
    /\ apiKeySet = TRUE
    /\ writers = NoWriters
    /\ sched = NoScheduler
    /\ last = Idle

NextSources ==
    \/ Advance(MaxRunTime)
    \/ \E source \in Sources :
          \E responses \in
                QuotingResponses(_select_clients(Configured(clients), source).selected) :
              RunUpdate(source, responses)

SpecSources == InitSources /\ [][NextSources]_vars

(***************************************************************************)
(* SpecHistory: the history log under direct appends and under runs of the *)
(* updater restricted to CoinGecko.  The appended batches hold up to two   *)
(* records of BTC_USD, observed at second 0 or 1 with one of two rates, or *)
(* a record without id; a run at second 0 or 1 builds a record with one of *)
(* the same ids.                                                           *)
(***************************************************************************)
Observed(rate, timestamp) ==
    HistoryRecord(PairKey("BTC", base_currency), rate, timestamp, "CoinGecko",
                  [raw_id |-> crypto_id_map["BTC"]])

AppendedRecords ==
    {Observed(rate, Aware(t)) : rate \in {Rate(9, 10), Rate(1, 2)}, t \in {0, 1}}
        \cup {[Observed(Rate(9, 10), Aware(0)) EXCEPT !.id = EmptyId]}

AppendedBatches == UNION {[1..n -> AppendedRecords] : n \in 0..2}

InitHistory ==
    /\ ratesFile = json_dump_rates(EmptyPayload("ok"))
    /\ historyFile = json_dump_history(<<>>)
    /\ clients = NewClients(0)
    /\ now = 0
    /\ tz = 0
    /\ ttlSeconds = 0
    /\ apiKeySet = TRUE
    /\ writers = NoWriters
    /\ sched = NoScheduler
    /\ last = Idle

NextHistory ==
    \/ Advance(MaxRunTime)
    \/ \E records \in AppendedBatches : AppendHistory(records)
    \/ \E responses \in Responses(_select_clients(Configured(clients), "coingecko").selected) :
          RunUpdate("coingecko", responses)

SpecHistory == InitHistory /\ [][NextHistory]_vars

(***************************************************************************)
(* SpecStore: the storage on files it did not write.  A file that exists   *)
(* when the storage is built is kept whatever it holds: the created        *)
(* content, text that is no JSON, bytes that cannot be read or decoded, or *)
(* (for the history) a JSON value that is no list; and a file may be       *)
(* removed while the storage is in use.                                    *)
(***************************************************************************)
StoredUpdates ==
    {<<>>} \cup {[pair \in {PairKey("BTC", base_currency)} |->
                    Entry(rate, Aware(0), "CoinGecko")] : rate \in {Rate(9, 10), Rate(1, 2)}}

InitStore ==
    /\ ratesFile \in {json_dump_rates(EmptyPayload("ok")), CorruptFile, UnreadableFile}
    /\ historyFile \in {json_dump_history(<<>>), CorruptFile, UnreadableFile, NotAList}
    /\ clients = NewClients(0)
    /\ now = 0
    /\ tz = 0
    /\ ttlSeconds = 0
    /\ apiKeySet = TRUE
    /\ writers = NoWriters
    /\ sched = NoScheduler
    /\ last = Idle

\* Another process removes a file of the data directory.
Unlink ==
    /\ \/ ratesFile # AbsentFile /\ ratesFile' = AbsentFile /\ UNCHANGED historyFile
       \/ historyFile # AbsentFile /\ historyFile' = AbsentFile /\ UNCHANGED ratesFile
    /\ last' = Idle
    /\ UNCHANGED <<clients, now, tz, ttlSeconds, apiKeySet, writers, sched>>

NextStore ==
    \/ Unlink
    \/ ReadCache
    \/ \E updates \in StoredUpdates : MergeWrite(updates, utc_now_iso(now))
    \/ \E records \in AppendedBatches : AppendHistory(records)

SpecStore == InitStore /\ [][NextStore]_vars

(***************************************************************************)
(* SpecWriters: write_rates_cache step by step, by up to two callers at    *)
(* once (no lock is held across the call).  A call reads the rates file,   *)
(* merges in memory, creates a temporary file beside the target, dumps the *)
(* JSON text into it, closes it, and renames it onto the target; the       *)
(* process may die between any two steps.  A file that is empty or holds   *)
(* only the beginning of a JSON text is text json.load rejects.            *)
(***************************************************************************)
Writers == {"first", "second"}

WriterUpdates ==
    {[pair \in {PairKey("BTC", base_currency)} |-> Entry(Rate(9, 10), Aware(0), "CoinGecko")],
     [pair \in {PairKey("BTC", base_currency)} |-> Entry(Rate(1, 2), Aware(0), "CoinGecko")],
     [pair \in {PairKey("EUR", base_currency)} |-> Entry(Rate(9, 10), Aware(0), "ExchangeRate-API")]}

\* The file json.dump writes into.
DumpInPlace == "path"

\* NamedTemporaryFile(dir = path.parent, delete = False)
DumpTarget == "temp"

\* What open(path).read() returns nothing of.
SnapshotOfNothing(file) == json_dump_rates(EmptyPayload("ok"))

\* The text of the file as the call's _read_json finds it.
Snapshot(file) == file

\* The text atomic_write_json is given: the snapshot merged with the updates.
Serialised(writer) ==
    write_rates_cache(writer.snapshot, writer.updates, writer.last_refresh).file

\* What the file dumped into holds: nothing yet, a beginning, or all.
Written(writer) ==
    IF writer.pc \in {"closed", "done"} THEN Serialised(writer) ELSE CorruptFile

Replaced == {w \in DOMAIN writers : writers[w].pc = "done"}

Step(w, from, to) ==
    /\ w \in DOMAIN writers
    /\ writers[w].pc = from
    /\ writers' = [writers EXCEPT ![w].pc = to]

\* write_rates_cache(updates, last_refresh) is called.
Call(w, updates) ==
    /\ w \notin DOMAIN writers
    /\ writers' = writers @@ (w :> [pc |-> "called", updates |-> updates,
                                    last_refresh |-> utc_now_iso(now),
                                    snapshot |-> CorruptFile, seen |-> {},
                                    order |-> 0])
    /\ last' = Idle
    /\ UNCHANGED <<ratesFile, historyFile, clients, now, tz, ttlSeconds, apiKeySet,
                   sched>>

\* cache = self.read_rates_cache(); the merge that follows is in memory.
\* `seen` are the calls whose rename came before this read.
WriterRead(w) ==
    /\ w \in DOMAIN writers
    /\ writers[w].pc = "called"
    /\ writers' = [writers EXCEPT ![w].pc = "read",
                                  ![w].snapshot = Snapshot(ratesFile),
                                  ![w].seen = Replaced]
    /\ last' = Idle
    /\ UNCHANGED <<ratesFile, historyFile, clients, now, tz, ttlSeconds, apiKeySet,
                   sched>>

\* NamedTemporaryFile(...) creates the empty file.
OpenTemp(w) ==
    /\ Step(w, "read", "open")
    /\ ratesFile' = IF DumpTarget = "temp" THEN ratesFile ELSE CorruptFile
    /\ last' = Idle
    /\ UNCHANGED <<historyFile, clients, now, tz, ttlSeconds, apiKeySet, sched>>

\* json.dump: part of the text reaches the file.
Dump(w) ==
    /\ Step(w, "open", "dumping")
    /\ ratesFile' = IF DumpTarget = "temp" THEN ratesFile ELSE CorruptFile
    /\ last' = Idle
    /\ UNCHANGED <<historyFile, clients, now, tz, ttlSeconds, apiKeySet, sched>>

\* Leaving the `with` block flushes the rest and closes the file.
Close(w) ==
    /\ Step(w, "dumping", "closed")
    /\ ratesFile' = IF DumpTarget = "temp" THEN ratesFile
                    ELSE Serialised(writers[w])
    /\ last' = Idle
    /\ UNCHANGED <<historyFile, clients, now, tz, ttlSeconds, apiKeySet, sched>>

\* temp_path.replace(path)
Replace(w) ==
    /\ w \in DOMAIN writers
    /\ writers[w].pc = "closed"
    /\ writers' = [writers EXCEPT ![w].pc = "done",
                                  ![w].order = Cardinality(Replaced) + 1]
    /\ ratesFile' = IF DumpTarget = "temp" THEN Written(writers[w]) ELSE ratesFile
    /\ last' = Idle
    /\ UNCHANGED <<historyFile, clients, now, tz, ttlSeconds, apiKeySet, sched>>

\* The process dies before the call is over; what it wrote stays on disk.
Crash(w) ==
    /\ w \in DOMAIN writers
    /\ writers[w].pc \in {"called", "read", "open", "dumping", "closed"}
    /\ writers' = [writers EXCEPT ![w].pc = "crashed"]
    /\ last' = Idle
    /\ UNCHANGED <<ratesFile, historyFile, clients, now, tz, ttlSeconds, apiKeySet,
                   sched>>

\* A reader of the rates file, at any moment.
Reader ==
    /\ last' = [op |-> "read", text |-> ratesFile,
                payload |-> read_rates_cache(ratesFile)]
    /\ UNCHANGED <<ratesFile, historyFile, clients, now, tz, ttlSeconds, apiKeySet,
                   writers, sched>>

InitWriters ==
    /\ ratesFile \in
          {json_dump_rates(EmptyPayload("ok")),
           json_dump_rates(Payload("ok",
               [pair \in {PairKey("ETH", base_currency)} |->
                   Entry(Rate(1, 2), Aware(0), "CoinGecko")], Aware(0)))}
    /\ historyFile = json_dump_history(<<>>)
    /\ clients = NewClients(0)
    /\ now = 0
    /\ tz = 0
    /\ ttlSeconds = 0
    /\ apiKeySet = TRUE
    /\ writers = NoWriters
    /\ sched = NoScheduler
    /\ last = Idle

NextWriters ==
    \/ \E w \in Writers, updates \in WriterUpdates : Call(w, updates)
    \/ \E w \in Writers :
          WriterRead(w) \/ OpenTemp(w) \/ Dump(w) \/ Close(w) \/ Replace(w) \/ Crash(w)
    \/ Reader

SpecWriters == InitWriters /\ [][NextWriters]_vars

(***************************************************************************)
(* SpecScheduler: parser_service/scheduler.py.  One thread is inside       *)
(* run_forever or inside run_once_after_delay while another may call       *)
(* stop() at any moment and the clock moves.  `pc` is the thread's place:  *)
(* "test" before the loop condition, "update" inside run_update, "wait" in *)
(* stop_event.wait, "sleep" in time.sleep, "woke" before the condition     *)
(* that follows it, "returned" and "raised" once the method is left.       *)
(* `since` is when the wait or sleep began, `invoked` that run_update was  *)
(* called, `stopped_in` the place the thread was in when stop() came.      *)
(* The thread is scheduled again and again, and a run_update that was      *)
(* called ends; nothing makes stop() come or the clock move.               *)
(***************************************************************************)
interval_seconds == 1

delay_seconds == 1

Entered(mode, pc, clock) ==
    [built |-> TRUE, mode |-> mode, pc |-> pc, stop_event |-> FALSE,
     since |-> clock, invoked |-> FALSE, stopped_in |-> "never"]

WaitIgnoringEvent(s, clock, timeout) == clock - s.since >= timeout

\* threading.Event.wait(timeout) is over: the event is set or the time is up.
EventWaitOver(s, clock, timeout) == s.stop_event \/ clock - s.since >= timeout

\* time.sleep(seconds) is over: the time is up.
TimeSleepOver(s, clock, seconds) == clock - s.since >= seconds

SchedulerStep ==
    UNCHANGED <<ratesFile, historyFile, clients, now, tz, ttlSeconds, apiKeySet,
                writers, last>>

\* while not self._stop_event.is_set():
LoopTest ==
    /\ sched.mode = "forever"
    /\ sched.pc = "test"
    /\ sched' = [sched EXCEPT !.pc = IF sched.stop_event THEN "returned" ELSE "update"]
    /\ SchedulerStep

\* What the sources answer to one run of the scheduler.
CycleResponses ==
    {[name \in DOMAIN NewClients(0) |-> RequestFailed],
     [name \in DOMAIN NewClients(0) |->
         IF name = "CoinGecko"
         THEN JsonBody("", [id \in {"bitcoin"} |-> Number(Rate(9, 10))])
         ELSE JsonBody("success", [code \in {"EUR"} |-> Number(Rate(9, 10))])],
     [name \in DOMAIN NewClients(0) |->
         IF name = "CoinGecko" THEN NotJson ELSE RequestFailed]}

\* self._updater.run_update(), from its call to its end.  An exception of
\* run_update leaves the scheduler's method with it.
CycleUpdate ==
    /\ sched.pc = "update"
    /\ \E responses \in CycleResponses : Update(NoSource, responses)
    /\ sched' = [sched EXCEPT !.invoked = TRUE,
                              !.since = now,
                              !.pc = IF last'.outcome # "ok" THEN "raised"
                                     ELSE IF sched.mode = "forever" THEN "wait"
                                     ELSE "returned"]

\* self._stop_event.wait(self._interval_seconds) returns.
WaitReturns ==
    /\ sched.pc = "wait"
    /\ EventWaitOver(sched, now, interval_seconds)
    /\ sched' = [sched EXCEPT !.pc = "test"]
    /\ SchedulerStep

\* time.sleep(delay_seconds) returns.
SleepReturns ==
    /\ sched.pc = "sleep"
    /\ TimeSleepOver(sched, now, delay_seconds)
    /\ sched' = [sched EXCEPT !.pc = "woke"]
    /\ SchedulerStep

\* if not self._stop_event.is_set():
OnceTest ==
    /\ sched.pc = "woke"
    /\ sched' = [sched EXCEPT !.pc = IF sched.stop_event THEN "returned" ELSE "update"]
    /\ SchedulerStep

\* stop(), from another thread.
Stop ==
    /\ ~sched.stop_event
    /\ sched' = [sched EXCEPT !.stop_event = TRUE, !.stopped_in = sched.pc]
    /\ SchedulerStep

InitScheduler ==
    /\ ratesFile = json_dump_rates(EmptyPayload("ok"))
    /\ historyFile = json_dump_history(<<>>)
    /\ clients = NewClients(0)
    /\ now = 0
    /\ tz = 0
    /\ ttlSeconds = 0
    /\ apiKeySet \in BOOLEAN
    /\ writers = NoWriters
    /\ sched \in {Entered("forever", "test", 0), Entered("once", "sleep", 0)}
    /\ last = Idle

NextScheduler ==
    \/ Advance(MaxRunTime)
    \/ Stop
    \/ LoopTest
    \/ CycleUpdate
    \/ WaitReturns
    \/ SleepReturns
    \/ OnceTest

SpecScheduler ==
    /\ InitScheduler
    /\ [][NextScheduler]_vars
    /\ WF_vars(LoopTest)
    /\ WF_vars(CycleUpdate)
    /\ WF_vars(WaitReturns)
    /\ WF_vars(SleepReturns)
    /\ WF_vars(OnceTest)

(***************************************************************************)
(* SpecStopped: one RatesScheduler whose methods are called one after the  *)
(* other, any number of times, while stop() may come at any moment, also   *)
(* before the first call and between two calls.  The object keeps its one  *)
(* Event from __init__ on; `entered_stopped` says that the event was set   *)
(* when the method now running (or last run) was called.                   *)
(***************************************************************************)
CalledWithNewEvent(s, mode, pc, clock) ==
    Entered(mode, pc, clock) @@ [entered_stopped |-> s.stop_event]

\* The scheduler as a call of one of its methods finds and leaves it.
Called(s, mode, pc, clock) ==
    [s EXCEPT !.mode = mode, !.pc = pc, !.since = clock, !.invoked = FALSE,
              !.entered_stopped = s.stop_event]

Outside == sched.pc \in {"idle", "returned", "raised"}

\* run_forever() is called.
EnterForever ==
    /\ Outside
    /\ sched' = Called(sched, "forever", "test", now)
    /\ SchedulerStep

\* run_once_after_delay(delay_seconds) is called.
EnterOnce ==
    /\ Outside
    /\ sched' = Called(sched, "once", "sleep", now)
    /\ SchedulerStep

InitStopped ==
    /\ ratesFile = json_dump_rates(EmptyPayload("ok"))
    /\ historyFile = json_dump_history(<<>>)
    /\ clients = NewClients(0)
    /\ now = 0
    /\ tz = 0
    /\ ttlSeconds = 0
    /\ apiKeySet = TRUE
    /\ writers = NoWriters
    /\ sched = Entered("none", "idle", 0) @@ [entered_stopped |-> FALSE]
    /\ last = Idle

NextStopped ==
    \/ Advance(MaxRunTime)
    \/ Stop
    \/ EnterForever
    \/ EnterOnce
    \/ LoopTest
    \/ CycleUpdate
    \/ WaitReturns
    \/ SleepReturns
    \/ OnceTest

SpecStopped == InitStopped /\ [][NextStopped]_vars

(***************************************************************************)
(* SpecOverlap: the updater with two clients that quote a pair in common:  *)
(* the ExchangeRate-API client is built with a config whose                *)
(* fiat_currencies lists BTC beside EUR, so both clients return BTC_USD.   *)
(***************************************************************************)
OverlapResponses ==
    LET CoinGecko ==
            {RequestFailed, JsonBody("", [id \in {"bitcoin"} |-> Number(Rate(9, 10))])}
        ExchangeRate ==
            {RequestFailed,
             JsonBody("success", [code \in {"EUR"} |-> Number(Rate(9, 10))]),
             JsonBody("success", [code \in {"BTC", "EUR"} |-> Number(Rate(2, 1))])}
    IN  {[name \in DOMAIN NewClients(0) |->
             IF name = "CoinGecko" THEN a ELSE b] : a \in CoinGecko, b \in ExchangeRate}

InitOverlap ==
    /\ ratesFile = json_dump_rates(EmptyPayload("ok"))
    /\ historyFile = json_dump_history(<<>>)
    /\ clients = [name \in DOMAIN NewClients(0) |->
                     IF name = "CoinGecko" THEN NewClient(0)
                     ELSE NewClient(0) @@ [fiat_currencies |-> <<"BTC", "EUR">>]]
    /\ now = 0
    /\ tz = 0
    /\ ttlSeconds = 0
    /\ apiKeySet = TRUE
    /\ writers = NoWriters
    /\ sched = NoScheduler
    /\ last = Idle

NextOverlap ==
    \/ Advance(MaxRunTime)
    \/ \E responses \in OverlapResponses : RunUpdate(NoSource, responses)

SpecOverlap == InitOverlap /\ [][NextOverlap]_vars

(***************************************************************************)
(* SpecShared: the resolver and the updater on the same rates file, on a   *)
(* machine whose local time is UTC or two seconds ahead of it.  The file   *)
(* found at the start is a created one or one whose "pairs" is no mapping. *)
(* The resolver is asked for BTC -> USD, the pair CoinGecko quotes, and    *)
(* for USD -> USD.                                                         *)
(***************************************************************************)
BadPairsFile == json_dump_rates(EmptyPayload("badpairs"))

ZoneOffsets == {0, 2}

Asked == {<<"BTC", "USD">>, <<"USD", "USD">>}

InitShared ==
    /\ ratesFile \in CreatedFiles \cup {BadPairsFile}
    /\ historyFile = json_dump_history(<<>>)
    /\ clients = NewClients(0)
    /\ now = 0
    /\ tz \in ZoneOffsets
    /\ ttlSeconds = 0
    /\ apiKeySet = TRUE
    /\ writers = NoWriters
    /\ sched = NoScheduler
    /\ last = Idle

NextShared ==
    \/ Advance(MaxRunTime)
    \/ \E call \in Asked : Resolve(call[1], call[2])
    \/ \E response \in {RequestFailed,
                        JsonBody("", [id \in {"bitcoin"} |-> Number(Rate(9, 10))])} :
          RunUpdate("coingecko", [name \in {"CoinGecko"} |-> response])

SpecShared == InitShared /\ [][NextShared]_vars

(***************************************************************************)
(* SpecThrough: _resolve_rate step by step beside run_update.  The call    *)
(* reads the rates file with get_rates, looks the pair up and fetches it   *)
(* in memory, and save_rates then opens the rates file itself for writing, *)
(* which empties it, and dumps the JSON text into it.  No lock is held, so *)
(* a run_update may come between any two steps; the process may die        *)
(* between any two steps.  When a run renames its temporary file onto the  *)
(* path while the resolver has the file open, the resolver's text goes to  *)
(* the file that no longer has a name.                                     *)
(***************************************************************************)
Resolver == "resolver"

Resolving(pc) == Resolver \in DOMAIN writers /\ writers[Resolver].pc = pc

\* rates_payload = self._db.get_rates()
ThroughRead(from_code, to_code) ==
    /\ Resolver \in DOMAIN writers => writers[Resolver].pc \in {"done", "crashed"}
    /\ ~ReadRaises(ratesFile)
    /\ writers' = (Resolver :> [pc |-> "read", from_code |-> from_code,
                                to_code |-> to_code, snapshot |-> ratesFile,
                                text |-> ratesFile])
                  @@ writers
    /\ last' = Idle
    /\ UNCHANGED <<ratesFile, historyFile, clients, now, tz, ttlSeconds, apiKeySet,
                   sched>>

\* The lookup, the fetch and upsert_rate in memory; then, when there is
\* something to save, path.open("w") of _write_json.
ThroughOpen ==
    LET call == writers[Resolver]
        r == ResolveResult(call.snapshot, call.from_code, call.to_code,
                           ttlSeconds, now, tz)
    IN  /\ Resolving("read")
        /\ IF r.last.writes = 0
           THEN /\ writers' = [writers EXCEPT ![Resolver].pc = "done"]
                /\ last' = r.last
                /\ UNCHANGED ratesFile
           ELSE /\ writers' = [writers EXCEPT ![Resolver].pc = "open",
                                              ![Resolver].text = r.file]
                /\ ratesFile' = CorruptFile
                /\ last' = Idle
        /\ UNCHANGED <<historyFile, clients, now, tz, ttlSeconds, apiKeySet, sched>>

\* json.dump and the end of the `with` block.  The path still names the
\* file the call opened unless a rename has put a whole file there since.
ThroughDump ==
    /\ Resolving("open")
    /\ writers' = [writers EXCEPT ![Resolver].pc = "done"]
    /\ ratesFile' = IF ratesFile = CorruptFile THEN writers[Resolver].text
                    ELSE ratesFile
    /\ last' = Idle
    /\ UNCHANGED <<historyFile, clients, now, tz, ttlSeconds, apiKeySet, sched>>

\* The process dies before the call is over; what it wrote stays on disk.
ThroughCrash ==
    /\ Resolving("read") \/ Resolving("open")
    /\ writers' = [writers EXCEPT ![Resolver].pc = "crashed"]
    /\ last' = Idle
    /\ UNCHANGED <<ratesFile, historyFile, clients, now, tz, ttlSeconds, apiKeySet,
                   sched>>

InitThrough ==
    /\ ratesFile \in CreatedFiles
    /\ historyFile = json_dump_history(<<>>)
    /\ clients = NewClients(0)
    /\ now = 0
    /\ tz = 0
    /\ ttlSeconds = 0
    /\ apiKeySet = TRUE
    /\ writers = NoWriters
    /\ sched = NoScheduler
    /\ last = Idle

NextThrough ==
    \/ Advance(MaxRunTime)
    \/ ThroughRead("EUR", "USD")
    \/ ThroughOpen
    \/ ThroughDump
    \/ ThroughCrash
    \/ \E response \in {RequestFailed,
                        JsonBody("", [id \in {"bitcoin"} |-> Number(Rate(9, 10))])} :
          RunUpdate("coingecko", [name \in {"CoinGecko"} |-> response])

SpecThrough == InitThrough /\ [][NextThrough]_vars

(***************************************************************************)
(* Notions the properties are stated in.                                   *)
(***************************************************************************)
Parses(stamp) == stamp.kind \in {"aware", "naive"}

\* The UTC instant a parseable timestamp was written at: a zone-less one was
\* written by this machine's local clock.
Instant(stamp) == IF stamp.kind = "naive" THEN stamp.t - tz ELSE stamp.t

\* The freshness test of the specification: now - updated_at <= ttlSeconds.
Fresh(entry, clock) ==
    Parses(entry.updated_at) /\ clock - Instant(entry.updated_at) <= ttlSeconds

\* The pair mapping a read of the file yields.
Held(file) == StoredPairs(read_rates_cache(file))

\* 1 / r of a fraction r.
Reciprocal(r) == [n |-> r.d, d |-> r.n]

IsResolve(call) == call.op = "resolve"

CallKey(call) == PairKey(call.from_code, call.to_code)

ReverseKey(call) == PairKey(call.to_code, call.from_code)

FreshDirect(file, call) ==
    CallKey(call) \in DOMAIN Held(file) /\ Fresh(Held(file)[CallKey(call)], call.at)

FreshReverse(file, call) ==
    /\ ReverseKey(call) \in DOMAIN Held(file)
    /\ Fresh(Held(file)[ReverseKey(call)], call.at)
    /\ Held(file)[ReverseKey(call)].rate.n > 0

(***************************************************************************)
(* C1.  resolve(X, X, ttl) returns rate 1.0 with the current time and      *)
(* accesses the rate-cache file neither for reading nor for writing.       *)
(***************************************************************************)
C1_IdentityTouchesNoStore ==
    (IsResolve(last) /\ last.from_code = last.to_code) =>
        /\ last.outcome = "ok"
        /\ last.rate = One
        /\ last.updated_at = Naive(last.at + tz)
        /\ last.reads = 0
        /\ last.writes = 0

(***************************************************************************)
(* C2.  For from # to, resolve calls the fetch strategy exactly when the   *)
(* cache holds neither a fresh direct entry nor a fresh reverse entry with *)
(* rate > 0; a fresh direct entry is what it returns, also when a fresh    *)
(* reverse entry exists; an entry whose updated_at does not parse is       *)
(* stale.                                                                  *)
(***************************************************************************)
C2_FetchIffNothingFresh ==
    [][(IsResolve(last') /\ last'.from_code # last'.to_code) =>
          LET held == Held(ratesFile)
              key == CallKey(last')
          IN  /\ last'.fetched <=>
                    (~FreshDirect(ratesFile, last') /\ ~FreshReverse(ratesFile, last'))
              /\ FreshDirect(ratesFile, last') =>
                    /\ last'.outcome = "ok"
                    /\ last'.rate = held[key].rate
                    /\ last'.updated_at = held[key].updated_at
              /\ (key \in DOMAIN held /\ ~Parses(held[key].updated_at)) =>
                    (last'.fetched \/ FreshReverse(ratesFile, last'))]_vars

C2_DirectPreferredToReverse ==
    /\ IsResolve(last)
    /\ last.from_code # last.to_code
    /\ FreshDirect(ratesFile, last)
    /\ FreshReverse(ratesFile, last)
    /\ ~last.fetched
    /\ last.rate = Held(ratesFile)[CallKey(last)].rate
    /\ last.rate.n > 0
    /\ last.rate # Reciprocal(Held(ratesFile)[ReverseKey(last)].rate)

(***************************************************************************)
(* C3.  The freshness test is inclusive: an entry whose age equals         *)
(* ttlSeconds is served from the cache, an entry one second older is not.  *)
(***************************************************************************)
C3_FreshnessBoundaryInclusive ==
    (/\ IsResolve(last)
     /\ last.from_code # last.to_code
     /\ last.direct.present
     /\ Parses(last.direct.entry.updated_at)) =>
        LET entry == last.direct.entry
            age == last.at - Instant(entry.updated_at)
        IN  /\ age = ttlSeconds =>
                  /\ ~last.fetched
                  /\ last.rate = entry.rate
                  /\ last.updated_at = entry.updated_at
            /\ age = ttlSeconds + 1 =>
                  (last.outcome = "ok" => last.updated_at # entry.updated_at)

C3_ServedAtBoundary ==
    /\ IsResolve(last)
    /\ last.from_code # last.to_code
    /\ last.direct.present
    /\ Parses(last.direct.entry.updated_at)
    /\ ttlSeconds > 0
    /\ last.at - Instant(last.direct.entry.updated_at) = ttlSeconds
    /\ ~last.fetched
    /\ last.updated_at = last.direct.entry.updated_at

(***************************************************************************)
(* C4.  With no fresh direct entry and a fresh reverse entry of rate       *)
(* r > 0, resolve returns (1 / r, the reverse entry's updated_at), calls   *)
(* no fetch and leaves the cache file as it was.                           *)
(***************************************************************************)
C4_ReverseEntryInverted ==
    [][(/\ IsResolve(last')
        /\ last'.from_code # last'.to_code
        /\ ~FreshDirect(ratesFile, last')
        /\ FreshReverse(ratesFile, last')) =>
          LET reverse == Held(ratesFile)[ReverseKey(last')]
          IN  /\ last'.outcome = "ok"
              /\ last'.rate = Reciprocal(reverse.rate)
              /\ last'.updated_at = reverse.updated_at
              /\ ~last'.fetched
              /\ last'.writes = 0
              /\ ratesFile' = ratesFile]_vars

\* The direct entry is there but stale, and the reverse entry is served.
C4_ReverseServedOverStaleDirect ==
    /\ IsResolve(last)
    /\ last.from_code # last.to_code
    /\ last.direct.present
    /\ ~FreshDirect(ratesFile, last)
    /\ FreshReverse(ratesFile, last)
    /\ ~last.fetched
    /\ last.rate = Reciprocal(Held(ratesFile)[ReverseKey(last)].rate)
    /\ last.rate # Held(ratesFile)[ReverseKey(last)].rate

(***************************************************************************)
(* C5.  After a resolve that fetched rate v, the cache holds exactly one   *)
(* entry for FROM_TO, with rate v and the updated_at the call returned,    *)
(* in place of any entry the pair had; every other pair's entry is as it   *)
(* was.                                                                    *)
(***************************************************************************)
C5_FetchWritesThrough ==
    [][(IsResolve(last') /\ last'.fetched /\ last'.outcome = "ok") =>
          LET before == Held(ratesFile)
              after == Held(ratesFile')
              key == CallKey(last')
          IN  /\ ratesFile'.kind = "json"
              /\ Cardinality({m \in ratesFile'.members : m[1] = key}) = 1
              /\ key \in DOMAIN after
              /\ after[key].rate = last'.rate
              /\ after[key].updated_at = last'.updated_at
              /\ last'.rate = Divide(usd_rates[last'.from_code],
                                     usd_rates[last'.to_code])
              /\ DOMAIN after = (DOMAIN before) \cup {key}
              /\ \A k \in (DOMAIN before) \ {key} : after[k] = before[k]]_vars

\* A stale entry of the pair was replaced while another pair was cached.
C5_StaleEntryReplaced ==
    /\ IsResolve(last)
    /\ last.fetched
    /\ last.outcome = "ok"
    /\ last.direct.present
    /\ last.direct.entry # Held(ratesFile)[CallKey(last)]
    /\ Held(ratesFile)[CallKey(last)].updated_at = last.updated_at
    /\ (DOMAIN Held(ratesFile)) \ {CallKey(last)} # {}

(***************************************************************************)
(* C6.  When the fetch fails, resolve ends with a rate-unavailable error   *)
(* naming the pair, returns no rate (not the stale cached one either) and  *)
(* leaves the cache file as it was.                                        *)
(***************************************************************************)
C6_FetchFailurePropagates ==
    [][(/\ IsResolve(last')
        /\ last'.fetched
        /\ ~resolve_rate_from_stub(last'.from_code, last'.to_code).ok) =>
          /\ last'.outcome = "ApiRequestError"
          /\ last'.error_pair = CallKey(last')
          /\ "rate" \notin DOMAIN last'
          /\ last'.writes = 0
          /\ ratesFile' = ratesFile]_vars

\* The pair has a stale entry in the cache and the call still ends in error.
C6_StaleEntryNotServed ==
    /\ IsResolve(last)
    /\ last.outcome = "ApiRequestError"
    /\ last.direct.present
    /\ Parses(last.direct.entry.updated_at)
    /\ last.direct.entry.rate.n > 0
    /\ Held(ratesFile)[CallKey(last)] = last.direct.entry

(***************************************************************************)
(* Notions of the merge claims.  The merge reads a zone-less timestamp as  *)
(* UTC, so the order of two parseable timestamps is the order of their     *)
(* readings.                                                               *)
(***************************************************************************)
IsMerge(call) == call.op = "write_rates_cache"

BothParse(current, incoming) ==
    /\ current.present
    /\ Parses(current.entry.updated_at)
    /\ Parses(incoming.updated_at)

\* Pairs of the call whose incoming entry is older than the cached one.
StalePairs(call) ==
    {p \in DOMAIN call.updates :
        /\ BothParse(call.current[p], call.updates[p])
        /\ call.updates[p].updated_at.t < call.current[p].entry.updated_at.t}

\* Pairs of the call the cache did not hold, or whose incoming entry is at
\* least as new as the cached one.
NewerPairs(call) ==
    {p \in DOMAIN call.updates :
        \/ ~call.current[p].present
        \/ /\ BothParse(call.current[p], call.updates[p])
           /\ call.updates[p].updated_at.t >= call.current[p].entry.updated_at.t}

(***************************************************************************)
(* C7.  A merge-write leaves unchanged the entry of every pair whose       *)
(* cached updated_at T parses and whose incoming updated_at parses and is  *)
(* earlier than T, and does not count such a pair in the number it returns. *)
(***************************************************************************)
C7_StaleIncomingRejected ==
    IsMerge(last) =>
        /\ \A p \in StalePairs(last) :
              /\ p \in DOMAIN Held(ratesFile)
              /\ Held(ratesFile)[p] = last.current[p].entry
        /\ last.updated_count <=
              Cardinality(DOMAIN last.updates) - Cardinality(StalePairs(last))

\* A batch of one stale pair and one new pair: the count is one.
C7_StaleBesideAccepted ==
    /\ IsMerge(last)
    /\ Cardinality(StalePairs(last)) = 1
    /\ Cardinality(DOMAIN last.updates) = 2
    /\ last.updated_count = 1
    /\ \E p \in StalePairs(last) :
          /\ Held(ratesFile)[p] # last.updates[p]
          /\ last.updates[p].rate # last.current[p].entry.rate

(***************************************************************************)
(* C8.  A merge-write stores and counts the incoming entry of every pair   *)
(* that the cache did not hold, or whose cached and incoming updated_at    *)
(* both parse with incoming >= cached; equal timestamps go to the incoming *)
(* entry.                                                                  *)
(***************************************************************************)
C8_NewerOrEqualAccepted ==
    IsMerge(last) =>
        /\ \A p \in NewerPairs(last) :
              /\ p \in DOMAIN Held(ratesFile)
              /\ Held(ratesFile)[p] = last.updates[p]
        /\ last.updated_count >= Cardinality(NewerPairs(last))

\* Equal timestamps, different rates: the incoming entry is the one stored.
C8_TieGoesToIncoming ==
    /\ IsMerge(last)
    /\ \E p \in NewerPairs(last) :
          /\ last.current[p].present
          /\ last.current[p].entry.updated_at = last.updates[p].updated_at
          /\ last.current[p].entry.rate # last.updates[p].rate
          /\ Held(ratesFile)[p] = last.updates[p]
    /\ last.updated_count = Cardinality(DOMAIN last.updates)

(***************************************************************************)
(* C9.  Every merge-write sets the persisted last_refresh to the timestamp *)
(* it is given, whatever it accepted; and a run_update in which every      *)
(* selected source fails returns, with last_refresh persisted as the run's *)
(* timestamp and returned as persisted.                                    *)
(***************************************************************************)
IsRunUpdate(call) == call.op = "run_update"

EverySourceFailed(call) ==
    /\ call.selected # <<>>
    /\ \A i \in DOMAIN call.selected : call.selected[i] \in call.failed

C9_LastRefreshAlwaysSet ==
    /\ IsMerge(last) =>
          read_rates_cache(ratesFile).last_refresh = last.last_refresh
    /\ (IsRunUpdate(last) /\ EverySourceFailed(last)) =>
          /\ last.outcome = "ok"
          /\ read_rates_cache(ratesFile).last_refresh = Aware(last.at)
          /\ last.last_refresh = read_rates_cache(ratesFile).last_refresh

(***************************************************************************)
(* C10.  A read after a merge-write returns, for as many pairs of the      *)
(* incoming map as the call counted, exactly the incoming entry, and for   *)
(* every other pair exactly the entry the cache held before the call.      *)
(***************************************************************************)
C10_MergeWriteReadRoundTrip ==
    [][IsMerge(last') =>
          LET before == Held(ratesFile)
              read == read_rates_cache(ratesFile')
              after == read.pairs
          IN  /\ read.shape = "ok"
              /\ \E acc \in SUBSET DOMAIN last'.updates :
                    /\ Cardinality(acc) = last'.updated_count
                    /\ DOMAIN after = (DOMAIN before) \cup acc
                    /\ \A p \in acc : after[p] = last'.updates[p]
                    /\ \A p \in (DOMAIN before) \ acc : after[p] = before[p]]_vars

\* One pair of the batch replaced the entry the cache held, the other was
\* rejected and is read back as it was.
C10_KeptBesideAccepted ==
    /\ IsMerge(last)
    /\ Cardinality(DOMAIN last.updates) = 2
    /\ last.updated_count = 1
    /\ \E p \in DOMAIN last.updates :
          /\ last.current[p].present
          /\ last.current[p].entry # last.updates[p]
          /\ read_rates_cache(ratesFile).pairs[p] = last.updates[p]
    /\ \E q \in DOMAIN last.updates :
          /\ last.current[q].present
          /\ last.current[q].entry # last.updates[q]
          /\ read_rates_cache(ratesFile).pairs[q] = last.current[q].entry


(***************************************************************************)
(* Notions of the history claims.                                          *)
(***************************************************************************)
IsAppend(call) == call.op = "append_history" /\ "added" \in DOMAIN call

Log(file) == read_history(file)

Ids(records) == {records[i].id : i \in DOMAIN records}

\* Every record of the batch has an id, no two have the same, and the log
\* holds none of them.
NewBatch(log, records) ==
    /\ \A i \in DOMAIN records :
          records[i].id # EmptyId /\ records[i].id \notin Ids(log)
    /\ \A i, j \in DOMAIN records : records[i].id = records[j].id => i = j

\* The step appends the batch that the call before it appended.
Replay(before, after) ==
    IsAppend(before) /\ IsAppend(after) /\ before.records = after.records

ReplayIsNoOp ==
    Replay(last, last') => (last'.added = 0 /\ historyFile' = historyFile)

(***************************************************************************)
(* C11 (as amended).  Appending a batch of N records whose ids are         *)
(* non-empty, pairwise different and not yet in the log returns N; and     *)
(* appending, after any batch, the same batch again returns 0 and leaves   *)
(* the persisted history as the first append left it.                      *)
(***************************************************************************)
C11_ReplayedAppendAddsNothing ==
    [][IsAppend(last') =>
          /\ NewBatch(Log(historyFile), last'.records) =>
                last'.added = Len(last'.records)
          /\ ReplayIsNoOp]_vars

\* A batch of two records is in the log and appending it added nothing.
C11_BatchAlreadyLogged ==
    /\ IsAppend(last)
    /\ Len(last.records) = 2
    /\ last.records[1].id # last.records[2].id
    /\ EmptyId \notin Ids(last.records)
    /\ \A i \in DOMAIN last.records :
          \E j \in DOMAIN Log(historyFile) : Log(historyFile)[j] = last.records[i]
    /\ last.added = 0

(***************************************************************************)
(* C11 (as claimed).  For every history and every batch of N records, the  *)
(* append returns N, and the same batch appended again returns 0 and       *)
(* leaves the history as it was.                                           *)
(***************************************************************************)
C11_EveryBatchAddsAll ==
    [][IsAppend(last') =>
          /\ ~Replay(last, last') => last'.added = Len(last'.records)
          /\ ReplayIsNoOp]_vars


IsPrefix(shorter, longer) ==
    /\ Len(shorter) <= Len(longer)
    /\ \A i \in DOMAIN shorter : shorter[i] = longer[i]

DuplicateFree(log) ==
    \A i, j \in DOMAIN log : log[i].id = log[j].id => i = j

(***************************************************************************)
(* C12.  Starting from an empty history, every append and every run of the *)
(* updater leaves the log it found as a prefix of the log it persists (no  *)
(* record removed, moved or changed), and no two records of the persisted  *)
(* log have the same id.                                                   *)
(***************************************************************************)
C12_HistoryAppendOnlyAndDuplicateFree ==
    [][/\ IsPrefix(Log(historyFile), Log(historyFile'))
       /\ DuplicateFree(Log(historyFile'))]_vars

\* A run of the updater has logged its observation, and a later append of
\* two records was refused the one with the logged id and added the other.
C12_AppendDroppedLoggedId ==
    /\ IsAppend(last)
    /\ Len(Log(historyFile)) = 2
    /\ PairKey("BTC", base_currency) \in DOMAIN Held(ratesFile)
    /\ Log(historyFile)[1].timestamp
          = Held(ratesFile)[PairKey("BTC", base_currency)].updated_at
    /\ Len(last.records) = 2
    /\ last.added = 1
    /\ Log(historyFile)[1].id = last.records[1].id
    /\ Log(historyFile)[1].rate # last.records[1].rate
    /\ Log(historyFile)[2] = last.records[2]


\* The selected clients of a run whose fetch ended in no error.
Succeeded(call) ==
    {call.selected[i] : i \in DOMAIN call.selected} \ call.failed

\* Every pair the client returned is in the map given to the merge-write
\* and has its record in the log.
Persisted(call, name) ==
    \A pair \in DOMAIN clients[name].last_fetch_meta :
        /\ pair \in DOMAIN call.submitted
        /\ call.submitted[pair].source = name
        /\ <<pair[1], pair[2], clients[name].last_updated_at>> \in Ids(Log(historyFile))

(***************************************************************************)
(* C13.  Whatever subset of the selected clients fails to fetch, the run   *)
(* returns normally, reports one error per failing client, and hands every *)
(* pair of every succeeding client to the merge-write and to the history.  *)
(***************************************************************************)
C13_FailingSourceIsolated ==
    (IsRunUpdate(last) /\ last.outcome # "ValueError") =>
        /\ last.outcome = "ok"
        /\ Len(last.errors) = Cardinality(last.failed)
        /\ \A name \in Succeeded(last) : Persisted(last, name)


\* The source name a filter stands for.
NamedBy(source) ==
    IF source = "coingecko" THEN "CoinGecko" ELSE "ExchangeRate-API"

\* A filter that is no source name, or names a source no client is built for.
SelectsNothing(source, built) ==
    /\ source # NoSource
    /\ \/ source \notin {"coingecko", "exchangerate"}
       \/ NamedBy(source) \notin DOMAIN built

(***************************************************************************)
(* C14.  A run whose source filter is not a source name, or names a source *)
(* that no configured client serves, ends in the validation error without  *)
(* having called fetch_rates of any client, and the rates file (pairs and  *)
(* last_refresh) and the history file are what they were.                  *)
(***************************************************************************)
C14_InvalidFilterRejectedBeforeFetch ==
    [][(IsRunUpdate(last') /\ SelectsNothing(last'.source, clients)) =>
          /\ last'.outcome = "ValueError"
          /\ last'.called = <<>>
          /\ clients' = clients
          /\ ratesFile' = ratesFile
          /\ historyFile' = historyFile]_vars

\* An updater built with CoinGecko alone has filled the cache and the log,
\* and was later asked for the source it has no client for.
C14_UnconfiguredSourceRefused ==
    /\ IsRunUpdate(last)
    /\ last.source = "exchangerate"
    /\ last.outcome = "ValueError"
    /\ DOMAIN clients = {"CoinGecko"}
    /\ PairKey("BTC", base_currency) \in DOMAIN Held(ratesFile)
    /\ Log(historyFile) # <<>>
    /\ read_rates_cache(ratesFile).last_refresh # utc_now_iso(last.at)

(***************************************************************************)
(* C20.  Every entry of the persisted rate cache has a rate above zero,    *)
(* whatever numbers the sources quote.                                     *)
(***************************************************************************)
C20_PersistedRatesPositive ==
    \A pair \in DOMAIN Held(ratesFile) : RatePositive(Held(ratesFile)[pair].rate)


IsRead(call) == call.op = "read_rates_cache"

Returned(call) == "outcome" \notin DOMAIN call

\* The file holds no parsed store: it is absent, unreadable or no JSON.
NoStore(file) == file.kind # "json"

(***************************************************************************)
(* C16.  No read of a store ends in an error: on a file that is absent,    *)
(* unreadable or unparseable the read returns the empty default, and the   *)
(* merge-write and the append go on as on an empty store.                  *)
(***************************************************************************)
C16_ReadNeverFails ==
    [][/\ IsRead(last') =>
             /\ Returned(last')
             /\ NoStore(ratesFile) => last'.payload = EmptyPayload("ok")
       /\ IsMerge(last') =>
             /\ Returned(last')
             /\ NoStore(ratesFile) =>
                   /\ last'.updated_count = Cardinality(DOMAIN last'.updates)
                   /\ Held(ratesFile') = last'.updates
       /\ last'.op = "append_history" =>
             /\ Returned(last')
             /\ NoStore(historyFile) =>
                   Log(historyFile') = AppendNew(<<>>, last'.records, 0).history]_vars


(***************************************************************************)
(* C15.  At every step of a write, a crash included, the file at the path  *)
(* is a whole JSON text, a reader is given a whole text, and the file at   *)
(* the path changes only in the rename of a temporary file that was        *)
(* written to its end and closed.                                          *)
(***************************************************************************)
C15_TargetWholeAtEveryStep ==
    [][/\ ratesFile'.kind = "json"
       /\ last'.op = "read" => last'.text.kind = "json"
       /\ ratesFile' # ratesFile =>
             \E w \in DOMAIN writers :
                 /\ writers[w].pc = "closed"
                 /\ writers'[w].pc = "done"
                 /\ ratesFile' = Serialised(writers[w])]_vars

\* The file is read while one call is in the middle of its dump and
\* another call has died.
C15_ReadDuringDump ==
    /\ last.op = "read"
    /\ \E w, v \in DOMAIN writers :
          /\ writers[w].pc = "dumping"
          /\ writers[v].pc = "crashed"
          /\ last.text # Serialised(writers[w])
          /\ last.text.kind = "json"

\* The pairs of its batch a call accepted against what it had read.
AcceptedBy(writer) ==
    Accepted(StoredPairs(read_rates_cache(writer.snapshot)), writer.updates)

\* Both calls are over and v's rename came first.
RenamedBefore(v, w) ==
    /\ v \in Replaced
    /\ w \in Replaced
    /\ writers[v].order < writers[w].order

\* Every pair v accepted that is not in w's batch is in the cache as v wrote it.
Survives(v, w) ==
    \A pair \in AcceptedBy(writers[v]) \ DOMAIN writers[w].updates :
        Get(Held(ratesFile), pair) = Some(writers[v].updates[pair])

(***************************************************************************)
(* C19 (as amended).  When two merge-writes race, the update the earlier   *)
(* one accepted for a pair outside the later one's batch is in the cache   *)
(* after both if the later one read the file after the earlier rename; if  *)
(* it read before, the cache holds for that pair what the later one read.  *)
(***************************************************************************)
C19_EarlierUpdateSurvivesIfSeen ==
    \A v, w \in DOMAIN writers :
        RenamedBefore(v, w) =>
            IF v \in writers[w].seen
            THEN Survives(v, w)
            ELSE \A pair \in AcceptedBy(writers[v]) \ DOMAIN writers[w].updates :
                    Get(Held(ratesFile), pair)
                        = Get(StoredPairs(read_rates_cache(writers[w].snapshot)), pair)

\* The later call read after the earlier rename, and both pairs are held.
C19_BothUpdatesHeld ==
    \E v, w \in DOMAIN writers :
        /\ RenamedBefore(v, w)
        /\ v \in writers[w].seen
        /\ DOMAIN writers[v].updates # DOMAIN writers[w].updates
        /\ AcceptedBy(writers[v]) # {}
        /\ Survives(v, w)
        /\ \A pair \in DOMAIN writers[w].updates :
              Get(Held(ratesFile), pair) = Some(writers[w].updates[pair])

(***************************************************************************)
(* C19 (as claimed).  Under every interleaving of two racing merge-writes, *)
(* the update the earlier one accepted for a pair outside the later one's  *)
(* batch is in the cache after both.                                       *)
(***************************************************************************)
C19_EarlierUpdateNeverLost ==
    \A v, w \in DOMAIN writers : RenamedBefore(v, w) => Survives(v, w)


InRunForever == sched.mode = "forever"

InRunOnce == sched.mode = "once"

\* The step calls run_update.
StartsUpdate == sched.pc # "update" /\ sched'.pc = "update"

\* No update cycle starts once stop() was called.
NoCycleAfterStop ==
    [][(InRunForever /\ sched.stop_event) => ~StartsUpdate]_vars

\* A wait that is pending when stop() was called can return at once.
PendingWaitCancelled ==
    [](InRunForever /\ sched.pc = "wait" /\ sched.stop_event => ENABLED WaitReturns)

\* Nothing but the end of run_update takes the thread out of an update, and
\* stop() leaves it there.
UpdateRunsToCompletion ==
    [][(InRunForever /\ sched.pc = "update") =>
          \/ sched'.pc = "update"
          \/ /\ IsRunUpdate(last')
             /\ sched'.pc = IF last'.outcome = "ok" THEN "wait" ELSE "raised"]_vars

\* run_forever is left after stop().
ReturnsAfterStop ==
    (InRunForever /\ sched.stop_event) ~> (sched.pc \in {"returned", "raised"})

(***************************************************************************)
(* C17.  Once stop() has been called run_forever starts no update cycle; a *)
(* pending interval wait returns without lasting the interval; an update   *)
(* that is executing runs to its end; and run_forever is then left,        *)
(* provided the update in flight ends.                                     *)
(***************************************************************************)
C17_StopEndsRunForever ==
    /\ NoCycleAfterStop
    /\ PendingWaitCancelled
    /\ UpdateRunsToCompletion
    /\ ReturnsAfterStop

\* stop() came during a wait that had not lasted the interval, and
\* run_forever returned within the same second.
C17_StoppedDuringWait ==
    /\ InRunForever
    /\ sched.pc = "returned"
    /\ sched.stopped_in = "wait"
    /\ sched.invoked
    /\ now - sched.since < interval_seconds

\* run_update is called at most once, after the delay, with stop() not called.
OnceAfterDelayUnlessStopped ==
    [][(InRunOnce /\ StartsUpdate) =>
          /\ ~sched.invoked
          /\ now - sched.since >= delay_seconds
          /\ ~sched.stop_event]_vars

\* A sleep that is pending when stop() was called can return at once.
PendingSleepCancelled ==
    [](InRunOnce /\ sched.pc = "sleep" /\ sched.stop_event => ENABLED SleepReturns)

(***************************************************************************)
(* C18.  run_once_after_delay calls run_update at most once, only after    *)
(* the delay, and not at all if stop() was called before the delay was     *)
(* over; and a stop() during the delay makes the pending wait return at    *)
(* once, like every pending wait of the scheduler.                         *)
(***************************************************************************)
C18_StopCancelsDelay ==
    /\ OnceAfterDelayUnlessStopped
    /\ PendingSleepCancelled


\* Pairs of the call the cache held with an updated_at that parses, whose
\* incoming updated_at is missing or does not parse.
UnstampedPairs(call) ==
    {p \in DOMAIN call.updates :
        /\ call.current[p].present
        /\ Parses(call.current[p].entry.updated_at)
        /\ ~Parses(call.updates[p].updated_at)}

\* Pairs of the call whose cached updated_at is missing or does not parse.
MalformedPairs(call) ==
    {p \in DOMAIN call.updates :
        call.current[p].present /\ ~Parses(call.current[p].entry.updated_at)}

(***************************************************************************)
(* C21.  A merge-write leaves unchanged the entry of every pair the cache  *)
(* holds whose incoming updated_at is missing, empty or no timestamp, and  *)
(* does not count such a pair in the number it returns.  (Stated for the   *)
(* pairs whose cached updated_at parses; the others are those of C22.)     *)
(***************************************************************************)
C21_UnstampedIncomingRejected ==
    IsMerge(last) =>
        /\ \A p \in UnstampedPairs(last) :
              Get(Held(ratesFile), p) = last.current[p]
        /\ last.updated_count <=
              Cardinality(DOMAIN last.updates) - Cardinality(UnstampedPairs(last))

(***************************************************************************)
(* C22.  A merge-write stores and counts the incoming entry of every pair  *)
(* whose cached updated_at is missing or does not parse, whatever the      *)
(* incoming updated_at is.                                                 *)
(***************************************************************************)
C22_MalformedCurrentReplaced ==
    IsMerge(last) =>
        /\ \A p \in MalformedPairs(last) :
              Get(Held(ratesFile), p) = Some(last.updates[p])
        /\ last.updated_count >= Cardinality(MalformedPairs(last))


(***************************************************************************)
(* C23.  Whatever way a source fails, its fetch_rates ends in the one      *)
(* error run_update isolates, so that no run is left by another error, and *)
(* the failing client's last_fetch_meta and last_updated_at stay what they *)
(* were.                                                                   *)
(***************************************************************************)
C23_EveryFailureIsSourceFetchError ==
    [][IsRunUpdate(last') =>
          /\ last'.outcome \in {"ok", "ValueError"}
          /\ \A name \in last'.failed : clients'[name] = clients[name]]_vars


\* The places in the records a run built that are about the pair.
BuiltFor(call, pair) ==
    {i \in DOMAIN call.built :
        PairKey(call.built[i].from_currency, call.built[i].to_currency) = pair}

\* The entry of the record a run built last for the pair.
LastBuilt(call, pair) ==
    LET i == CHOOSE i \in BuiltFor(call, pair) : \A j \in BuiltFor(call, pair) : j <= i
    IN  Entry(call.built[i].rate, call.built[i].timestamp, call.built[i].source)

C25_IdentityNeverPersisted ==
    \A pair \in DOMAIN Held(ratesFile) : pair[1] # pair[2]

\* The run found in the cache an entry for a pair it submits that the
\* resolver had written at an earlier second.
ResolverWroteEarlier(call, pair) ==
    /\ pair \in DOMAIN call.submitted
    /\ pair \in DOMAIN Held(ratesFile)
    /\ Held(ratesFile)[pair].source = "LocalStub"
    /\ Parses(Held(ratesFile)[pair].updated_at)
    /\ Instant(Held(ratesFile)[pair].updated_at) < call.at

(***************************************************************************)
(* C27.  An entry the resolver wrote through for a pair at one second      *)
(* gives way to the entry a later run fetches for the pair at a later      *)
(* second, whatever the offset of the machine's local time from UTC.       *)
(***************************************************************************)
C27_LaterFetchReplacesResolverEntry ==
    [][(IsRunUpdate(last') /\ last'.outcome = "ok") =>
          \A pair \in DOMAIN last'.submitted :
              ResolverWroteEarlier(last', pair) =>
                  Get(Held(ratesFile'), pair) = Some(last'.submitted[pair])]_vars


(***************************************************************************)
(* C26.  At no step of a resolve or of a run, and after a crash at any     *)
(* step, is the rates file empty or cut short: it always holds a whole     *)
(* JSON text.                                                              *)
(***************************************************************************)
C26_RatesFileAlwaysWhole == ratesFile.kind = "json"

\* The newest record the history holds for the pair, as a cache entry.
NewestAccepted(pair) ==
    LET history == read_history(historyFile)
        of_pair == {i \in DOMAIN history :
                       PairKey(history[i].from_currency, history[i].to_currency) = pair}
        i == CHOOSE j \in of_pair :
                 \A k \in of_pair : history[k].timestamp.t <= history[j].timestamp.t
    IN  Entry(history[i].rate, history[i].timestamp, history[i].source)

(***************************************************************************)
(* C30.  Once a resolve that ran beside run_update is over, every pair a   *)
(* run has merged into the cache, other than the pair the resolver         *)
(* fetched, is in the cache with the value of the run that wrote it last.  *)
(***************************************************************************)
C30_ResolverKeepsAcceptedPairs ==
    Resolving("done") =>
        \A i \in DOMAIN read_history(historyFile) :
            LET record == read_history(historyFile)[i]
                pair == PairKey(record.from_currency, record.to_currency)
            IN  pair # PairKey(writers[Resolver].from_code, writers[Resolver].to_code)
                   => Get(Held(ratesFile), pair) = Some(NewestAccepted(pair))


\* Every timestamp the merge-write meets parses: those of the cache it reads
\* and those of the batch it is given.
AllStampsParse(pairs, updates) ==
    /\ \A pair \in DOMAIN pairs : Parses(pairs[pair].updated_at)
    /\ \A pair \in DOMAIN updates : Parses(updates[pair].updated_at)

Reading(stamp) == fromisoformat(stamp).t

(***************************************************************************)
(* C28.  A merge-write that meets only timestamps that parse removes no    *)
(* pair from the cache and moves no pair's updated_at back in time.        *)
(***************************************************************************)
C28_NewestWinsMonotone ==
    [][(last'.op = "write_rates_cache" /\ "updated_count" \in DOMAIN last'
        /\ AllStampsParse(Held(ratesFile), last'.updates)) =>
          \A pair \in DOMAIN Held(ratesFile) :
              /\ pair \in DOMAIN Held(ratesFile')
              /\ Reading(Held(ratesFile')[pair].updated_at)
                    >= Reading(Held(ratesFile)[pair].updated_at)]_vars

\* A merge-write was given an entry older than the cached one for a pair,
\* with every timestamp parsing, and the cache kept the newer entry.
C28_OlderEntryKeptOut ==
    /\ last.op = "write_rates_cache"
    /\ "updated_count" \in DOMAIN last
    /\ \A pair \in DOMAIN last.updates : Parses(last.updates[pair].updated_at)
    /\ \A pair \in DOMAIN Held(ratesFile) : Parses(Held(ratesFile)[pair].updated_at)
    /\ \E pair \in DOMAIN last.updates :
          /\ last.current[pair].present
          /\ Parses(last.current[pair].entry.updated_at)
          /\ Reading(last.updates[pair].updated_at)
                < Reading(last.current[pair].entry.updated_at)
          /\ Get(Held(ratesFile), pair) = last.current[pair]


(***************************************************************************)
(* C29.  Once stop() has been called the scheduler stays stopped: no step  *)
(* clears the stop event, and a run_forever or run_once_after_delay that   *)
(* is called with the event set never reaches run_update.  A stop() that   *)
(* comes before run_forever is called is such a case.                      *)
(***************************************************************************)
C29_StoppedIsAbsorbing ==
    [][/\ sched.stop_event => sched'.stop_event
       /\ sched'.entered_stopped => (~sched'.invoked /\ sched'.pc # "update")]_vars

\* run_forever was called after stop() and has returned at its first test.
C29_LaterRunForeverReturned ==
    /\ sched.mode = "forever"
    /\ sched.entered_stopped
    /\ sched.pc = "returned"
    /\ ~sched.invoked

====
